---- MODULE Spec2Model ----
(***************************************************************************)
(* Model of app.py: the shift-text parser (parse_shift_text), the per-day  *)
(* wage calculator (calculate_daily_wage) and the button handler of main() *)
(* that feeds the first into the second.                                   *)
(*                                                                         *)
(* Text is modelled at the level of cells: a line is a sequence of cells,  *)
(* a cell is a literal marker, a date cell "M/D(label)" or a time cell     *)
(* "H:MM<sep>H:MM"; numbers inside cells are digit sequences, so that      *)
(* int(), the two-digit format and parse_time are real conversions.  A     *)
(* pattern is matched against one cell: no match spans two cells.          *)
(* Python floats are IEEE-754 doubles: a 53-bit mantissa and an exponent,  *)
(* every operation rounded to nearest, ties to even.                       *)
(* Of main() the model keeps the button handler up to the totals; what it  *)
(* writes to the page is left out.                                         *)
(***************************************************************************)
EXTENDS Integers, Sequences, FiniteSets, TLC

\* ===== wage settings (app.py 17-21) =====
BASE_WAGE == 1140
WEEKEND_WAGE == 1290
WEEKDAY_AFTERNOON == 1190
WEEKDAY_EVENING == 1290

(***************************************************************************)
(* Natural numbers wider than TLC's 32-bit integers, for the mantissas:    *)
(* little-endian sequences of limbs below LimbBase, no high zero limbs.    *)
(***************************************************************************)
LimbBits == 15
LimbBase == 2^LimbBits

\* F(e), with e evaluated once
Bind(e, F(_)) == CHOOSE r \in {F(v) : v \in {e}} : TRUE

BigNorm(x0) ==
    Bind(x0, LAMBDA x :
        IF \A k \in 1..Len(x) : x[k] = 0 THEN <<>>
        ELSE SubSeq(x, 1, CHOOSE k \in 1..Len(x) :
                             x[k] # 0 /\ \A h \in (k + 1)..Len(x) : x[h] = 0))

RECURSIVE BigFromInt(_)
BigFromInt(n) ==
    IF n = 0 THEN <<>> ELSE <<n % LimbBase>> \o BigFromInt(n \div LimbBase)

\* the limbs of x * c + carry * LimbBase^(k-1) from the k-th on
RECURSIVE BigMulCarry(_, _, _, _)
BigMulCarry(x, c, k, carry) ==
    IF k > Len(x) THEN BigFromInt(carry)
    ELSE Bind(x[k] * c + carry, LAMBDA t :
            <<t % LimbBase>> \o BigMulCarry(x, c, k + 1, t \div LimbBase))

\* x * c for a small non-negative c (c <= LimbBase)
BigMulSmall(x0, c) == Bind(x0, LAMBDA x : BigNorm(BigMulCarry(x, c, 1, 0)))

Limb(x, k) == IF k <= Len(x) THEN x[k] ELSE 0

RECURSIVE BigAddCarry(_, _, _, _)
BigAddCarry(x, y, k, carry) ==
    IF k > Len(x) /\ k > Len(y) THEN BigFromInt(carry)
    ELSE Bind(Limb(x, k) + Limb(y, k) + carry, LAMBDA t :
            <<t % LimbBase>> \o BigAddCarry(x, y, k + 1, t \div LimbBase))

BigAdd(x0, y0) ==
    Bind(x0, LAMBDA x : Bind(y0, LAMBDA y : BigNorm(BigAddCarry(x, y, 1, 0))))

RECURSIVE BigSubBorrow(_, _, _, _)
BigSubBorrow(x, y, k, borrow) ==
    IF k > Len(x) THEN <<>>
    ELSE Bind(x[k] - Limb(y, k) - borrow, LAMBDA t :
            <<IF t < 0 THEN t + LimbBase ELSE t>>
              \o BigSubBorrow(x, y, k + 1, IF t < 0 THEN 1 ELSE 0))

\* x - y for x >= y
BigSub(x0, y0) ==
    Bind(x0, LAMBDA x : Bind(y0, LAMBDA y : BigNorm(BigSubBorrow(x, y, 1, 0))))

\* -1, 0, 1 as x < y, x = y, x > y
BigCmp(x0, y0) ==
    Bind(x0, LAMBDA x : Bind(y0, LAMBDA y :
        IF Len(x) < Len(y) THEN -1
        ELSE IF Len(x) > Len(y) THEN 1
        ELSE IF x = y THEN 0
        ELSE Bind(CHOOSE k \in 1..Len(x) :
                     x[k] # y[k] /\ \A h \in (k + 1)..Len(x) : x[h] = y[h],
                  LAMBDA k : IF x[k] < y[k] THEN -1 ELSE 1)))

\* long division from the k-th limb down, rem carried in from above
RECURSIVE BigDivFrom(_, _, _, _)
BigDivFrom(x, d, k, rem) ==
    IF k = 0 THEN [q |-> <<>>, r |-> rem]
    ELSE Bind(rem * LimbBase + x[k], LAMBDA cur :
            Bind(BigDivFrom(x, d, k - 1, cur % d), LAMBDA lo :
                [q |-> Append(lo.q, cur \div d), r |-> lo.r]))

\* quotient and remainder of x by a small d (0 < d <= LimbBase)
BigDivRem(x0, d) ==
    Bind(x0, LAMBDA x :
        Bind(BigDivFrom(x, d, Len(x), 0), LAMBDA qr :
            [q |-> BigNorm(qr.q), r |-> qr.r]))

RECURSIVE IntBitLen(_)
IntBitLen(n) == IF n = 0 THEN 0 ELSE 1 + IntBitLen(n \div 2)

BigBitLen(x0) ==
    Bind(x0, LAMBDA x :
        IF x = <<>> THEN 0 ELSE LimbBits * (Len(x) - 1) + IntBitLen(x[Len(x)]))

\* x * 2^s
BigShl(x0, s) ==
    Bind(x0, LAMBDA x :
        IF x = <<>> THEN <<>>
        ELSE [k \in 1..(s \div LimbBits) |-> 0] \o BigMulSmall(x, 2^(s % LimbBits)))

\* floor(x / 2^s)
BigShr(x0, s) ==
    Bind(x0, LAMBDA x :
        IF s \div LimbBits >= Len(x) THEN <<>>
        ELSE BigDivRem(SubSeq(x, (s \div LimbBits) + 1, Len(x)), 2^(s % LimbBits)).q)

BigIsOdd(x) == x # <<>> /\ x[1] % 2 = 1

\* x / 2^s rounded to the nearest integer, ties to the even one
BigRoundShr(x0, s) ==
    Bind(x0, LAMBDA x :
        IF s = 0 THEN x
        ELSE Bind(BigShr(x, s), LAMBDA q :
               \* 2x against (2q + 1) * 2^s
               Bind(BigCmp(BigShl(x, 1), BigShl(BigAdd(BigMulSmall(q, 2), <<1>>), s)),
                    LAMBDA c :
                      IF c > 0 \/ (c = 0 /\ BigIsOdd(q)) THEN BigAdd(q, <<1>>) ELSE q)))

(***************************************************************************)
(* A double: value (-1)^neg * man * 2^ex, man of exactly MantBits bits, or  *)
(* zero.  The values of this program stay far from overflow and from the   *)
(* subnormal range.                                                        *)
(***************************************************************************)
MantBits == 53

FloatZero == [neg |-> FALSE, man |-> <<>>, ex |-> 0]

\* the double nearest to (-1)^neg * man * 2^ex
FloatRound(neg, man0, ex) ==
    Bind(man0, LAMBDA man :
        IF man = <<>> THEN FloatZero
        ELSE Bind(BigBitLen(man), LAMBDA bl :
               IF bl <= MantBits
               THEN [neg |-> neg, man |-> BigShl(man, MantBits - bl),
                     ex |-> ex - (MantBits - bl)]
               ELSE Bind(BigRoundShr(man, bl - MantBits), LAMBDA r :
                      IF BigBitLen(r) > MantBits    \* rounded up to 2^MantBits
                      THEN [neg |-> neg, man |-> BigShr(r, 1),
                            ex |-> ex + (bl - MantBits) + 1]
                      ELSE [neg |-> neg, man |-> r, ex |-> ex + (bl - MantBits)])))

Abs(n) == IF n < 0 THEN -n ELSE n

\* n / d for ints n and d > 0 (Python's true division: correctly rounded).
\* The quotient is taken with two bits more than the mantissa at least, and
\* a remainder is folded in as a sticky bit below them.
FloatDivInt(n, d) ==
    IF n = 0 THEN FloatZero
    ELSE Bind(MantBits + 2 + IntBitLen(d), LAMBDA k :
           Bind(BigDivRem(BigShl(BigFromInt(Abs(n)), k), d), LAMBDA dr :
             FloatRound(n < 0,
                        BigAdd(BigMulSmall(dr.q, 2), IF dr.r = 0 THEN <<>> ELSE <<1>>),
                        -(k + 1))))

\* f * c for a float f and an int c > 0 (c converts exactly)
FloatMulInt(f0, c) ==
    Bind(f0, LAMBDA f : FloatRound(f.neg, BigMulSmall(f.man, c), f.ex))

\* f + g: the exact sum, rounded once
FloatAdd(f0, g0) ==
    Bind(f0, LAMBDA f : Bind(g0, LAMBDA g :
        IF f.man = <<>> THEN g
        ELSE IF g.man = <<>> THEN f
        ELSE Bind(IF f.ex < g.ex THEN f.ex ELSE g.ex, LAMBDA e :
               Bind(BigShl(f.man, f.ex - e), LAMBDA a :
                 Bind(BigShl(g.man, g.ex - e), LAMBDA b :
                   Bind(BigCmp(a, b), LAMBDA c :
                     IF f.neg = g.neg THEN FloatRound(f.neg, BigAdd(a, b), e)
                     ELSE IF c = 0 THEN FloatZero
                     ELSE IF c > 0 THEN FloatRound(f.neg, BigSub(a, b), e)
                     ELSE FloatRound(g.neg, BigSub(b, a), e)))))))

(***************************************************************************)
(* Text.  A digit string is a sequence of digits; int() reads it.          *)
(***************************************************************************)
RECURSIVE IntOf(_)
IntOf(ds) == IF ds = <<>> THEN 0 ELSE 10 * IntOf(SubSeq(ds, 1, Len(ds) - 1)) + ds[Len(ds)]

\* f"{n:02d}" for 0 <= n <= 99
Format02d(n) == <<n \div 10, n % 10>>

\* a cell that is a literal piece of text
Mark(v) == [k |-> "mark", v |-> v]
\* "mo/dd(lab)"
DateCell(mo, dd, lab) == [k |-> "date", mo |-> mo, dd |-> dd, lab |-> lab]
\* "sh:sm<sep>eh:em"
TimeCell(sh, sm, sep, eh, em) ==
    [k |-> "time", sh |-> sh, sm |-> sm, sep |-> sep, eh |-> eh, em |-> em]

HasMark(line, v) == \E c \in 1..Len(line) : line[c] = Mark(v)

\* not line.strip()
IsBlankLine(line) == \A c \in 1..Len(line) : line[c] = Mark("SPACE")

\* "日付" in line and "勤務時間" in line
IsHeaderLine(line) == HasMark(line, "HDR_DATE") /\ HasMark(line, "HDR_HOURS")

\* "－" in line or "ー" in line
\* (mutation: the test for one of the two glyphs is missing)
HasPlaceholderHyphenOnly(line) == HasMark(line, "FW_HYPHEN")
HasPlaceholder(line) == HasMark(line, "FW_HYPHEN") \/ HasMark(line, "LONG_VOWEL")

\* the cells date_pattern (\d{1,2})/(\d{1,2})\([^)]+\) matches
MatchesDatePattern(c) ==
    /\ c.k = "date"
    /\ Len(c.mo) \in 1..2
    /\ Len(c.dd) \in 1..2
    /\ c.lab # ""

\* the cells time_pattern (\d{1,2}:\d{2})[～〜](\d{1,2}:\d{2}) matches
MatchesTimePattern(c) ==
    /\ c.k = "time"
    /\ Len(c.sh) \in 1..2 /\ Len(c.sm) = 2
    /\ Len(c.eh) \in 1..2 /\ Len(c.em) = 2
    /\ c.sep \in {"WAVE_FULLWIDTH", "WAVE"}

\* re.search: the index of the leftmost matching cell, 0 for None
SearchDate(line) ==
    IF \E c \in 1..Len(line) : MatchesDatePattern(line[c])
    THEN CHOOSE c \in 1..Len(line) :
            /\ MatchesDatePattern(line[c])
            /\ \A b \in 1..(c - 1) : ~MatchesDatePattern(line[b])
    ELSE 0

SearchTime(line) ==
    IF \E c \in 1..Len(line) : MatchesTimePattern(line[c])
    THEN CHOOSE c \in 1..Len(line) :
            /\ MatchesTimePattern(line[c])
            /\ \A b \in 1..(c - 1) : ~MatchesTimePattern(line[b])
    ELSE 0

(***************************************************************************)
(* datetime.date: the constructor's ValueError, and weekday().             *)
(***************************************************************************)
MINYEAR == 1
MAXYEAR == 9999

IsLeap(y) == y % 4 = 0 /\ (y % 100 # 0 \/ y % 400 = 0)

DaysInMonth(y, m) ==
    IF m = 2 THEN (IF IsLeap(y) THEN 29 ELSE 28)
    ELSE IF m \in {4, 6, 9, 11} THEN 30 ELSE 31

\* date(year, month, day) returns; otherwise it raises ValueError
DateIsValid(y, m, d) ==
    /\ y \in MINYEAR..MAXYEAR
    /\ m \in 1..12
    /\ d \in 1..DaysInMonth(y, m)

RECURSIVE DaysBeforeMonth(_, _)
DaysBeforeMonth(y, m) ==
    IF m = 1 THEN 0 ELSE DaysBeforeMonth(y, m - 1) + DaysInMonth(y, m - 1)

ToOrdinal(dt) ==
    LET y == dt.year - 1
    IN  y * 365 + y \div 4 - y \div 100 + y \div 400
          + DaysBeforeMonth(dt.year, dt.month) + dt.day

\* date.weekday(): Monday is 0, Sunday is 6
Weekday(dt) == (ToOrdinal(dt) + 6) % 7

\* is_holiday_or_weekend; hol is jpholiday's table, the (month, day) pairs
\* it answers True for
\* (mutation: the holiday test is missing)
is_weekend_only(dt, hol) == Weekday(dt) >= 5
is_holiday_or_weekend(dt, hol) ==
    IF Weekday(dt) >= 5 THEN TRUE
    ELSE IF <<dt.month, dt.day>> \in hol THEN TRUE
    ELSE FALSE

(***************************************************************************)
(* parse_shift_text, one iteration of its loop over the lines.             *)
(***************************************************************************)
\* (mutations: the two adjustments exchanged; no adjustment)
ResolveYearSwapped(month, current_year, current_month) ==
    IF month < current_month - 6 THEN current_year - 1
    ELSE IF month > current_month + 6 THEN current_year + 1
    ELSE current_year
ResolveYearNoRoll(month, current_year, current_month) == current_year
\* year = current_year, +1 / -1 by the half-year rule
ResolveYear(month, current_year, current_month) ==
    IF month < current_month - 6 THEN current_year + 1
    ELSE IF month > current_month + 6 THEN current_year - 1
    ELSE current_year

Skip(why) == [ok |-> FALSE, why |-> why]

ParseLine(line, current_year, current_month) ==
    IF IsBlankLine(line) THEN Skip("blank")
    ELSE IF IsHeaderLine(line) THEN Skip("header")
    ELSE IF HasPlaceholder(line) THEN Skip("placeholder")
    ELSE IF SearchDate(line) = 0 THEN Skip("no date")
    ELSE
      LET date_match == line[SearchDate(line)]
          month == IntOf(date_match.mo)
          day   == IntOf(date_match.dd)
          year  == ResolveYear(month, current_year, current_month)
      IN  IF ~DateIsValid(year, month, day) THEN Skip("ValueError")
          ELSE IF SearchTime(line) = 0 THEN Skip("no time")
          ELSE
            LET time_match == line[SearchTime(line)]
            IN  [ok    |-> TRUE,
                 shift |-> [date  |-> [year |-> year, month |-> month, day |-> day],
                            start |-> [h |-> Format02d(IntOf(time_match.sh)),
                                       m |-> time_match.sm],
                            end   |-> [h |-> Format02d(IntOf(time_match.eh)),
                                       m |-> time_match.em]]]

(***************************************************************************)
(* calculate_daily_wage                                                    *)
(***************************************************************************)
parse_time(time_str) == <<IntOf(time_str.h), IntOf(time_str.m)>>

time_to_minutes(hour, minute) == hour * 60 + minute

minutes_to_hours(minutes) == FloatDivInt(minutes, 60)

Max(a, b) == IF a > b THEN a ELSE b
Min(a, b) == IF a < b THEN a ELSE b

\* (mutation: overlap_end is end1, not the earlier of the two ends)
calculate_overlap_no_min(start1, end1, start2, end2) ==
    Max(0, end1 - Max(start1, start2))
calculate_overlap(start1, end1, start2, end2) ==
    LET overlap_start == Max(start1, start2)
        overlap_end   == Min(end1, end2)
    IN  Max(0, overlap_end - overlap_start)

\* (mutation: the morning band ends at 12:00)
MORNING_END_NOON == time_to_minutes(12, 0)
MORNING_END == time_to_minutes(13, 0)
AFTERNOON_END == time_to_minutes(17, 0)

\* result["wage"] and result["breakdown"] after one block of the weekday
\* branch: "if <band>_minutes > 0:" the band's wage is added and its
\* segment appended
Band(result, type, minutes, rate) ==
    IF minutes > 0
    THEN Bind(FloatMulInt(minutes_to_hours(minutes), rate), LAMBDA band_wage :
           [result EXCEPT
              !.wage = FloatAdd(@, band_wage),
              !.breakdown = Append(@, [type |-> type, minutes |-> minutes,
                                       rate |-> rate, amount |-> band_wage])])
    ELSE result

calculate_daily_wage(work_date, start_time, end_time, hol) ==
    LET start_minutes == time_to_minutes(parse_time(start_time)[1], parse_time(start_time)[2])
        end_minutes   == time_to_minutes(parse_time(end_time)[1], parse_time(end_time)[2])
        total_minutes == end_minutes - start_minutes
        result == [date |-> work_date, start |-> start_time, end |-> end_time,
                   total_minutes |-> total_minutes, wage |-> FloatZero,
                   breakdown |-> <<>>]
    IN  IF is_holiday_or_weekend(work_date, hol)
        THEN Bind(FloatMulInt(minutes_to_hours(total_minutes), WEEKEND_WAGE), LAMBDA wage :
               [result EXCEPT
                  !.wage = wage,
                  !.breakdown = Append(@, [type |-> "SAT_SUN_HOLIDAY",
                                           minutes |-> total_minutes,
                                           rate |-> WEEKEND_WAGE, amount |-> wage])])
        ELSE Band(Band(Band(result,
                  "UNTIL_13",
                  calculate_overlap(start_minutes, end_minutes, 0, MORNING_END),
                  BASE_WAGE),
                  "FROM_13_TO_17",
                  calculate_overlap(start_minutes, end_minutes, MORNING_END, AFTERNOON_END),
                  WEEKDAY_AFTERNOON),
                  "FROM_17",
                  calculate_overlap(start_minutes, end_minutes,
                                    AFTERNOON_END, time_to_minutes(24, 0)),
                  WEEKDAY_EVENING)

(***************************************************************************)
(* The inputs: the pasted text, the clock and jpholiday's table.           *)
(***************************************************************************)
MaxLines == 2
MaxCells == 3

\* a number written with one digit where it fits, and with two
Digits1(n) == IF n < 10 THEN <<n>> ELSE <<n \div 10, n % 10>>
Digits2(n) == <<n \div 10, n % 10>>

Thursday == DateCell(Digits2(12), Digits2(18), "THU")     \* 12/18(木)
Saturday == DateCell(Digits2(1), Digits2(3), "SAT")       \* 01/03(土)
Monday   == DateCell(Digits2(12), Digits1(22), "MON")     \* 12/22(月)
Feb30    == DateCell(Digits2(2), Digits2(30), "MON")      \* 02/30(月)
NoLabel  == DateCell(Digits2(12), Digits2(18), "")        \* 12/18()

Evening  == TimeCell(Digits2(17), Digits2(0), "WAVE_FULLWIDTH", Digits2(20), Digits2(0))
DayLong  == TimeCell(Digits1(9), Digits2(0), "WAVE", Digits2(18), Digits2(0))
Reversed == TimeCell(Digits2(20), Digits2(0), "WAVE_FULLWIDTH", Digits2(17), Digits2(0))
Hyphened == TimeCell(Digits2(17), Digits2(0), "HYPHEN", Digits2(20), Digits2(0))

\* the cells of the one-line texts
CellSamples ==
    {Mark("SPACE"), Mark("HDR_DATE"), Mark("HDR_HOURS"), Mark("FW_HYPHEN"),
     Mark("LONG_VOWEL"), Mark("OTHER"),
     Thursday, Feb30, NoLabel, Evening, Reversed, Hyphened}

SeqsUpTo(S, n) == UNION {[1..k -> S] : k \in 0..n}

\* the lines of the schedules of several lines
ScheduleLines ==
    { <<>>,
      <<Mark("HDR_DATE"), Mark("HDR_HOURS"), Mark("OTHER"), Mark("OTHER")>>,
      <<Mark("HDR_DATE"), Mark("HDR_HOURS"), Thursday, Evening>>,
      <<Saturday, Mark("FW_HYPHEN"), Mark("OTHER")>>,
      <<Monday, DayLong, Mark("LONG_VOWEL")>>,
      <<Feb30, Evening>>,
      <<Thursday, Mark("OTHER")>>,
      <<Thursday, Evening, Mark("OTHER"), Mark("OTHER")>>,
      <<Monday, Reversed>>,
      <<Saturday, DayLong>> }

HourSamples == {0, 9, 12, 13, 16, 17, 23, 24, 25, 99}
MinuteSamples == {0, 11, 45, 99}

TimeSamples ==
    {TimeCell(Digits1(sh), Digits2(sm), "WAVE_FULLWIDTH", Digits1(eh), Digits2(em)) :
        sh \in HourSamples, sm \in MinuteSamples, eh \in HourSamples, em \in MinuteSamples}

MonthSamples == 0..13
DaySamples == {1, 29, 31}
YearSamples == {2024, 2025}

\* (month, day) pairs jpholiday may answer True for
HolidayTables == {{}, {<<12, 18>>}}

VARIABLES
    shift_text,      \* the text area's content: a sequence of lines
    now,             \* datetime.now(): [year, month]
    holidays,        \* jpholiday's table
    pc,              \* where the button handler is
    lines, i,        \* parse_shift_text: the lines and the loop's position
    current_year, current_month,
    shifts,          \* parse_shift_text's list, then main's
    j,               \* main's loop over shifts
    results, total_wage, total_minutes

vars == <<shift_text, now, holidays, pc, lines, i, current_year, current_month,
          shifts, j, results, total_wage, total_minutes>>

Idle ==
    /\ pc = "idle"
    /\ lines = <<>> /\ i = 0
    /\ current_year = 0 /\ current_month = 0
    /\ shifts = <<>> /\ j = 0
    /\ results = <<>> /\ total_wage = FloatZero /\ total_minutes = 0

\* schedules of up to MaxLines lines
InitSchedule ==
    /\ shift_text \in SeqsUpTo(ScheduleLines, MaxLines)
    /\ now \in {[year |-> 2025, month |-> 12], [year |-> 2026, month |-> 1]}
    /\ holidays \in HolidayTables

\* every line of up to MaxCells cells
InitLine ==
    /\ shift_text \in {<<l>> : l \in SeqsUpTo(CellSamples, MaxCells)}
    /\ now = [year |-> 2025, month |-> 12]
    /\ holidays = {}

\* every month read in every month
InitYear ==
    /\ shift_text \in {<<<<DateCell(Digits1(m), Digits1(d), "DAY"), Evening>>>> :
                          m \in MonthSamples, d \in DaySamples}
    /\ now \in [year : YearSamples, month : 1..12]
    /\ holidays = {}

\* one day, every sampled pair of times
InitDay ==
    /\ shift_text \in {<<<<d, t>>>> : d \in {Thursday, Saturday, Monday}, t \in TimeSamples}
    /\ now = [year |-> 2025, month |-> 12]
    /\ holidays \in HolidayTables

Init ==
    /\ \/ InitSchedule
       \/ InitLine
       \/ InitYear
       \/ InitDay
    /\ Idle

(***************************************************************************)
(* main(): the handler of the button.                                      *)
(***************************************************************************)
\* text.strip().split("\n"): the text without its leading and trailing
\* blank lines; "".split("\n") is one empty line
RECURSIVE DropLeadingBlank(_)
DropLeadingBlank(text) ==
    IF text # <<>> /\ IsBlankLine(text[1]) THEN DropLeadingBlank(Tail(text)) ELSE text

RECURSIVE DropTrailingBlank(_)
DropTrailingBlank(text) ==
    IF text # <<>> /\ IsBlankLine(text[Len(text)])
    THEN DropTrailingBlank(SubSeq(text, 1, Len(text) - 1))
    ELSE text

StripSplit(text) ==
    LET t == DropTrailingBlank(DropLeadingBlank(text))
    IN  IF t = <<>> THEN <<<<>>>> ELSE t

\* not shift_text.strip()
IsBlankText(text) == \A n \in 1..Len(text) : IsBlankLine(text[n])

\* the button, pressed on an empty text area: the warning
ClickEmpty ==
    /\ pc = "idle"
    /\ IsBlankText(shift_text)
    /\ pc' = "warning"
    /\ UNCHANGED <<shift_text, now, holidays, lines, i, current_year, current_month,
                   shifts, j, results, total_wage, total_minutes>>

\* the button: parse_shift_text is entered, up to its first reading of the
\* clock, datetime.now().year
Click ==
    /\ pc = "idle"
    /\ ~IsBlankText(shift_text)
    /\ pc' = "read_month"
    /\ lines' = StripSplit(shift_text)
    /\ shifts' = <<>>
    /\ current_year' = now.year
    /\ UNCHANGED <<shift_text, now, holidays, i, current_month, j, results,
                   total_wage, total_minutes>>

\* the month ends between the two readings of the clock
Tick ==
    /\ pc = "read_month"
    /\ pc' = "read_month_late"
    /\ now' = IF now.month = 12 THEN [year |-> now.year + 1, month |-> 1]
              ELSE [now EXCEPT !.month = @ + 1]
    /\ UNCHANGED <<shift_text, holidays, lines, i, current_year, current_month,
                   shifts, j, results, total_wage, total_minutes>>

\* the second reading, datetime.now().month, and the loop begins
ReadMonth ==
    /\ pc \in {"read_month", "read_month_late"}
    /\ pc' = "parsing"
    /\ current_month' = now.month
    /\ i' = 1
    /\ UNCHANGED <<shift_text, now, holidays, lines, current_year, shifts, j, results,
                   total_wage, total_minutes>>

\* (mutation: break, the loop is left)
AfterSkipBreak(n, len) == len + 1
\* continue: the loop goes on with the next line
AfterSkip(n, len) == n + 1

\* one iteration that ends in a continue
SkipLine ==
    /\ pc = "parsing"
    /\ i <= Len(lines)
    /\ ~ParseLine(lines[i], current_year, current_month).ok
    /\ i' = AfterSkip(i, Len(lines))
    /\ UNCHANGED <<shift_text, now, holidays, pc, lines, current_year, current_month,
                   shifts, j, results, total_wage, total_minutes>>

\* one iteration that ends in shifts.append
AppendShift ==
    /\ pc = "parsing"
    /\ i <= Len(lines)
    /\ ParseLine(lines[i], current_year, current_month).ok
    /\ shifts' = Append(shifts, ParseLine(lines[i], current_year, current_month).shift)
    /\ i' = i + 1
    /\ UNCHANGED <<shift_text, now, holidays, pc, lines, current_year, current_month,
                   j, results, total_wage, total_minutes>>

\* return shifts, and nothing in it: the error message
ReturnEmpty ==
    /\ pc = "parsing"
    /\ i > Len(lines)
    /\ shifts = <<>>
    /\ pc' = "no_data"
    /\ UNCHANGED <<shift_text, now, holidays, lines, i, current_year, current_month,
                   shifts, j, results, total_wage, total_minutes>>

\* return shifts; main starts its loop over them
ReturnShifts ==
    /\ pc = "parsing"
    /\ i > Len(lines)
    /\ shifts # <<>>
    /\ pc' = "calculating"
    /\ j' = 1
    /\ results' = <<>>
    /\ total_wage' = FloatZero
    /\ total_minutes' = 0
    /\ UNCHANGED <<shift_text, now, holidays, lines, i, current_year, current_month, shifts>>

\* one iteration of main's loop over shifts
Calculate ==
    /\ pc = "calculating"
    /\ j <= Len(shifts)
    /\ \E result \in {calculate_daily_wage(shifts[j].date, shifts[j].start,
                                            shifts[j].end, holidays)} :
           /\ results' = Append(results, result)
           /\ total_wage' = FloatAdd(total_wage, result.wage)
           /\ total_minutes' = total_minutes + result.total_minutes
    /\ j' = j + 1
    /\ UNCHANGED <<shift_text, now, holidays, pc, lines, i, current_year, current_month,
                   shifts>>

\* the loop is over: the results are displayed
Show ==
    /\ pc = "calculating"
    /\ j > Len(shifts)
    /\ pc' = "shown"
    /\ UNCHANGED <<shift_text, now, holidays, lines, i, current_year, current_month,
                   shifts, j, results, total_wage, total_minutes>>

Next ==
    \/ ClickEmpty
    \/ Click
    \/ Tick
    \/ ReadMonth
    \/ SkipLine
    \/ AppendShift
    \/ ReturnEmpty
    \/ ReturnShifts
    \/ Calculate
    \/ Show

Spec == Init /\ [][Next]_vars

(***************************************************************************)
(* Properties.  What they read of a double: its sign, and c * f against an *)
(* integer n in the real numbers (nothing is rounded here).                *)
(***************************************************************************)
FloatIsNeg(f) == f.neg /\ f.man # <<>>

\* |c * f - n| * 2^bits <= |n|, for ints c > 0 and n
FloatTimesWithin(f, c, n, bits) ==
    IF n = 0 THEN f.man = <<>>
    ELSE /\ f.man # <<>>
         /\ f.neg = (n < 0)
         /\ LET l == IF f.ex >= 0 THEN BigShl(BigMulSmall(f.man, c), f.ex)
                     ELSE BigMulSmall(f.man, c)
                r == IF f.ex >= 0 THEN BigFromInt(Abs(n))
                     ELSE BigShl(BigFromInt(Abs(n)), -f.ex)
                d == IF BigCmp(l, r) >= 0 THEN BigSub(l, r) ELSE BigSub(r, l)
            IN  BigCmp(BigShl(d, bits), r) <= 0

\* c * f = n
FloatTimesEquals(f, c, n) ==
    IF n = 0 THEN f.man = <<>>
    ELSE /\ f.man # <<>>
         /\ f.neg = (n < 0)
         /\ IF f.ex >= 0
            THEN BigShl(BigMulSmall(f.man, c), f.ex) = BigFromInt(Abs(n))
            ELSE BigMulSmall(f.man, c) = BigShl(BigFromInt(Abs(n)), -f.ex)

\* minutes since midnight of a record's time
MinutesOf(t) == 60 * IntOf(t.h) + IntOf(t.m)

RECURSIVE SumMinutes(_)
SumMinutes(segs) ==
    IF segs = <<>> THEN 0 ELSE segs[1].minutes + SumMinutes(Tail(segs))

\* the results so far, by position; results[k] is the day of shifts[k]
Days == 1..Len(results)

\* a weekend day, or a day of jpholiday's table
SpecialDay(dt) == Weekday(dt) \in {5, 6} \/ <<dt.month, dt.day>> \in holidays

\* the three weekday bands, in the order of the day
Bands ==
    << [type |-> "UNTIL_13",      from |-> 0,       to |-> 13 * 60, rate |-> 1140],
       [type |-> "FROM_13_TO_17", from |-> 13 * 60, to |-> 17 * 60, rate |-> 1190],
       [type |-> "FROM_17",       from |-> 17 * 60, to |-> 24 * 60, rate |-> 1290] >>

Overlap(start, end, band) ==
    LET lo == IF start > band.from THEN start ELSE band.from
        hi == IF end < band.to THEN end ELSE band.to
    IN  IF hi - lo > 0 THEN hi - lo ELSE 0

\* a segment without its amount
Plain(seg) == [type |-> seg.type, minutes |-> seg.minutes, rate |-> seg.rate]

\* C1: the minutes of a day's segments add up to its total_minutes, which is
\* the end minus the start, both in minutes since midnight.
C1_SegmentsSumToTotal ==
    \A k \in Days :
        /\ results[k].total_minutes = MinutesOf(results[k].end) - MinutesOf(results[k].start)
        /\ SumMinutes(results[k].breakdown) = results[k].total_minutes

\* C2, as stated: a special day has exactly one segment, the weekend one, at
\* 1290, of total_minutes minutes, and 60 * wage = total_minutes * 1290.
C2_SpecialDayOneSegment_Exact ==
    \A k \in Days :
        SpecialDay(results[k].date) =>
            /\ Len(results[k].breakdown) = 1
            /\ Plain(results[k].breakdown[1]) =
                  [type |-> "SAT_SUN_HOLIDAY", minutes |-> results[k].total_minutes,
                   rate |-> 1290]
            /\ FloatTimesEquals(results[k].wage, 60, results[k].total_minutes * 1290)

\* C2, amended: a special day has exactly one segment, the weekend one, at
\* 1290, of total_minutes minutes; the wage is that segment's amount, and
\* 60 * wage is total_minutes * 1290 within a relative error of 2^-52, and
\* without any error when total_minutes is a multiple of 15.
C2_SpecialDayOneSegment ==
    \A k \in Days :
        SpecialDay(results[k].date) =>
            /\ Len(results[k].breakdown) = 1
            /\ Plain(results[k].breakdown[1]) =
                  [type |-> "SAT_SUN_HOLIDAY", minutes |-> results[k].total_minutes,
                   rate |-> 1290]
            /\ results[k].breakdown[1].amount = results[k].wage
            /\ FloatTimesWithin(results[k].wage, 60, results[k].total_minutes * 1290, 52)
            /\ results[k].total_minutes % 15 = 0 =>
                 FloatTimesEquals(results[k].wage, 60, results[k].total_minutes * 1290)

\* C2's case: a special day whose shift starts before 13:00 and ends after
\* 17:00 has been calculated, into one segment.
C2_Witness ==
    \E k \in Days :
        /\ SpecialDay(results[k].date)
        /\ MinutesOf(results[k].start) < 13 * 60
        /\ MinutesOf(results[k].end) > 17 * 60
        /\ Len(results[k].breakdown) = 1

\* a weekday shift with start < end that lies inside band b
InsideBand(r, b) ==
    /\ ~SpecialDay(r.date)
    /\ MinutesOf(r.start) < MinutesOf(r.end)
    /\ Bands[b].from <= MinutesOf(r.start)
    /\ MinutesOf(r.end) <= Bands[b].to

\* C3, as stated: a weekday shift inside one band has exactly one segment,
\* at the band's rate, of total_minutes minutes, and 60 * wage =
\* total_minutes * rate.
C3_SingleBand_Exact ==
    \A k \in Days : \A b \in 1..3 :
        InsideBand(results[k], b) =>
            /\ Len(results[k].breakdown) = 1
            /\ results[k].breakdown[1].rate = Bands[b].rate
            /\ results[k].breakdown[1].minutes = results[k].total_minutes
            /\ FloatTimesEquals(results[k].wage, 60,
                                results[k].total_minutes * Bands[b].rate)

\* C3, amended: a weekday shift inside one band has exactly one segment, at
\* the band's rate, of total_minutes minutes; 60 * wage is total_minutes *
\* rate within a relative error of 2^-52, and without any error when
\* total_minutes is a multiple of 15.
C3_SingleBand ==
    \A k \in Days : \A b \in 1..3 :
        InsideBand(results[k], b) =>
            /\ Len(results[k].breakdown) = 1
            /\ results[k].breakdown[1].rate = Bands[b].rate
            /\ results[k].breakdown[1].minutes = results[k].total_minutes
            /\ FloatTimesWithin(results[k].wage, 60,
                                results[k].total_minutes * Bands[b].rate, 52)
            /\ results[k].total_minutes % 15 = 0 =>
                 FloatTimesEquals(results[k].wage, 60,
                                  results[k].total_minutes * Bands[b].rate)

\* C3's case: a weekday shift inside the afternoon band, of a number of
\* minutes that is no multiple of 15, has been calculated.
C3_Witness ==
    \E k \in Days :
        /\ InsideBand(results[k], 2)
        /\ results[k].total_minutes % 15 # 0
        /\ Len(results[k].breakdown) = 1

\* the bands a shift overlaps, in band order, each with its overlap
ExpectedSegments(start, end) ==
    LET seg(b) == [type |-> Bands[b].type, minutes |-> Overlap(start, end, Bands[b]),
                   rate |-> Bands[b].rate]
        one(b) == IF Overlap(start, end, Bands[b]) > 0 THEN <<seg(b)>> ELSE <<>>
    IN  one(1) \o one(2) \o one(3)

\* C4: on a weekday the breakdown lists, in band order, exactly the bands
\* with a positive overlap, each once, with the overlap as its minutes.
C4_BandsInOrder ==
    \A k \in Days :
        ~SpecialDay(results[k].date) =>
            [n \in 1..Len(results[k].breakdown) |-> Plain(results[k].breakdown[n])]
              = ExpectedSegments(MinutesOf(results[k].start), MinutesOf(results[k].end))

\* C4's case: a weekday shift that starts in the afternoon band and ends in
\* the evening band has been calculated: two segments, the morning skipped.
C4_Witness ==
    \E k \in Days :
        /\ ~SpecialDay(results[k].date)
        /\ Len(results[k].breakdown) = 2
        /\ results[k].breakdown[1].type = "FROM_13_TO_17"
        /\ results[k].breakdown[2].type = "FROM_17"

\* the cells of a line
Cells(line) == {line[c] : c \in 1..Len(line)}

\* the leftmost cell of a line that satisfies P
First(line, P(_)) ==
    line[CHOOSE c \in 1..Len(line) : P(line[c]) /\ \A b \in 1..(c - 1) : ~P(line[b])]

IsDateText(c) == c.k = "date" /\ Len(c.mo) \in {1, 2} /\ Len(c.dd) \in {1, 2} /\ c.lab # ""

IsTimePair(c) ==
    /\ c.k = "time"
    /\ Len(c.sh) \in {1, 2} /\ Len(c.eh) \in {1, 2}
    /\ Len(c.sm) = 2 /\ Len(c.em) = 2
    /\ c.sep \in {"WAVE_FULLWIDTH", "WAVE"}

Number(ds) == IF Len(ds) = 1 THEN ds[1] ELSE 10 * ds[1] + ds[2]

\* the year of a month read in month c of year y, by the half-year rule
HalfYearRule(m, y, c) ==
    IF m < c - 6 THEN y + 1 ELSE IF m > c + 6 THEN y - 1 ELSE y

LastDay(y, m) ==
    CASE m \in {1, 3, 5, 7, 8, 10, 12} -> 31
      [] m \in {4, 6, 9, 11} -> 30
      [] m = 2 -> IF (y % 4 = 0 /\ y % 100 # 0) \/ y % 400 = 0 THEN 29 ELSE 28

\* the date a line names, a calendar date or not
DateOf(line) ==
    LET c == First(line, IsDateText)
    IN  [year  |-> HalfYearRule(Number(c.mo), current_year, current_month),
         month |-> Number(c.mo),
         day   |-> Number(c.dd)]

IsHeaderRow(line) == {Mark("HDR_DATE"), Mark("HDR_HOURS")} \subseteq Cells(line)

IsOffDay(line) == Cells(line) \cap {Mark("FW_HYPHEN"), Mark("LONG_VOWEL")} # {}

\* a line that gives a record: not blank, no header row, no off-day glyph,
\* a date that exists in the calendar, and a pair of times
Accepted(line) ==
    /\ Cells(line) \ {Mark("SPACE")} # {}
    /\ ~IsHeaderRow(line)
    /\ ~IsOffDay(line)
    /\ \E c \in Cells(line) : IsDateText(c)
    /\ DateOf(line).month \in 1..12
    /\ DateOf(line).day \in 1..LastDay(DateOf(line).year, DateOf(line).month)
    /\ \E c \in Cells(line) : IsTimePair(c)

TwoDigit(ds) == IF Len(ds) = 1 THEN <<0>> \o ds ELSE ds

\* the record of an accepted line
RecordOf(line) ==
    LET t == First(line, IsTimePair)
    IN  [date  |-> DateOf(line),
         start |-> [h |-> TwoDigit(t.sh), m |-> t.sm],
         end   |-> [h |-> TwoDigit(t.eh), m |-> t.em]]

\* the records of the accepted lines among ls, in the order of the lines
RECURSIVE RecordsOf(_)
RecordsOf(ls) ==
    IF ls = <<>> THEN <<>>
    ELSE (IF Accepted(ls[1]) THEN <<RecordOf(ls[1])>> ELSE <<>>) \o RecordsOf(Tail(ls))

Returned == pc \in {"no_data", "calculating", "shown"}

\* C5: parse_shift_text goes through every line whatever the lines are: in
\* its loop the list holds the records of the accepted lines read so far,
\* in their order, and a step is always possible; what it returns are the
\* records of the accepted lines of the whole text, in their order.
C5_RecordsOfAcceptedLines ==
    /\ pc \in {"idle", "warning", "read_month", "read_month_late", "parsing",
              "no_data", "calculating", "shown"}
    /\ pc = "parsing" =>
          /\ i \in 1..(Len(lines) + 1)
          /\ shifts = RecordsOf(SubSeq(lines, 1, i - 1))
          /\ ENABLED Next
    /\ Returned => shifts = RecordsOf(lines)

\* C5's case: a text whose first line names 02/30 and whose second line is
\* accepted has been parsed to the end.
C5_Witness ==
    /\ Returned
    /\ Len(lines) >= 2
    /\ \E c \in Cells(lines[1]) : IsDateText(c) /\ Number(c.mo) = 2 /\ Number(c.dd) = 30
    /\ ~Accepted(lines[1])
    /\ Accepted(lines[2])
    /\ Len(shifts) = 1

\* the lines the loop has gone through
Processed == IF pc = "idle" \/ pc = "warning" THEN {} ELSE 1..(i - 1)

\* C6: a header row, and a line with an off-day glyph, give no record, with
\* or without a date and a pair of times in them: there are no more records
\* than processed lines that are neither.
C6_HeaderAndPlaceholderFirst ==
    Len(shifts) <= Cardinality({n \in Processed : ~IsHeaderRow(lines[n]) /\ ~IsOffDay(lines[n])})

\* C6's case: a header row that also holds a date and a pair of times, and a
\* line with the glyph and both, have been processed, and gave nothing.
C6_Witness ==
    /\ \E n \in Processed :
          /\ IsHeaderRow(lines[n]) /\ ~IsOffDay(lines[n])
          /\ \E c \in Cells(lines[n]) : IsDateText(c)
          /\ \E c \in Cells(lines[n]) : IsTimePair(c)
    /\ \E n \in Processed :
          /\ Mark("LONG_VOWEL") \in Cells(lines[n]) /\ ~IsHeaderRow(lines[n])
          /\ \E c \in Cells(lines[n]) : IsDateText(c)
          /\ \E c \in Cells(lines[n]) : IsTimePair(c)
    /\ shifts = <<>>

\* a time of the day: 00:00 to 23:59, and 24:00
IsTimeOfDay(t) ==
    \/ IntOf(t.h) \in 0..23 /\ IntOf(t.m) \in 0..59
    \/ IntOf(t.h) = 24 /\ IntOf(t.m) = 0

\* C7: every record of the parser ends after it starts, and both its times
\* are times of the day.
C7_EndAfterStart ==
    \A k \in 1..Len(shifts) :
        /\ MinutesOf(shifts[k].end) > MinutesOf(shifts[k].start)
        /\ IsTimeOfDay(shifts[k].start)
        /\ IsTimeOfDay(shifts[k].end)

\* C8: every segment has minutes >= 0, a rate > 0 and an amount >= 0, and
\* the day's wage is >= 0.
C8_NothingNegative ==
    \A k \in Days :
        /\ ~FloatIsNeg(results[k].wage)
        /\ \A n \in 1..Len(results[k].breakdown) :
              /\ results[k].breakdown[n].minutes >= 0
              /\ results[k].breakdown[n].rate > 0
              /\ ~FloatIsNeg(results[k].breakdown[n].amount)

MonthsAway(dt) == 12 * (dt.year - current_year) + (dt.month - current_month)

====
